---- MODULE Spec2Model ----
(***************************************************************************)
(* A model of PDBData/PDBDataset.py: the dataset container (a list of      *)
(* molecules), its batch operations filter_confs, filter_validity and      *)
(* parametrize, the bulk ingestion from_hdf5, and the per-molecule archive *)
(* save_npz / load_npz.                                                    *)
(*                                                                         *)
(* The per-molecule unit PDBMolecule (filter_confs, conf_check,            *)
(* parametrize, from_xyz, compress, load) is defined in another module of  *)
(* the package; its operators below follow its documented contract.        *)
(*                                                                         *)
(* Numbers: energies and forces are integers (kcal/mol, kcal/mol/angstrom).*)
(* A conformation carries one force component, the one of largest          *)
(* magnitude.  A sigma is a numerator over SigmaDen.                       *)
(***************************************************************************)
EXTENDS Integers, Sequences, FiniteSets, TLC

VARIABLES
    mols,            \* self.mols of the dataset ds: a sequence of molecules
    molsId,          \* identity of the list object bound to self.mols
    pc,              \* position of the running batch operation on ds
    op,              \* the running (or last) batch operation with its arguments
    i,               \* 1-based loop index of the batch operation
    keep,            \* the local list keep of filter_validity / filter_confs
    pre,             \* self.mols as it was when the operation was called
    prevOp,          \* the operation that completed right before the call of op
    log,             \* ids of the molecules whose per-molecule step was called
    ncalls,          \* number of batch operations called so far
    archive,         \* the groups of the hdf5 file, in the order of f.keys()
    hargs,           \* arguments n_max and skip_errs of from_hdf5
    hpc,             \* position of from_hdf5
    hpos,            \* number of groups whose iteration has started
    obj,             \* the dataset from_hdf5 is building
    counter,         \* local counter of from_hdf5
    failed_counter,  \* local failed_counter of from_hdf5
    fs,              \* the state of the target path in the file system
    fs0,             \* the state of the target path before save_npz
    sargs,           \* arguments of save_npz and load_npz
    spc,             \* position of save_npz / load_npz
    si,              \* loop index of save_npz, 0-based as enumerate
    paths,           \* the list of paths load_npz iterates over
    ds2              \* the dataset load_npz is building

vars == <<mols, molsId, pc, op, i, keep, pre, prevOp, log, ncalls,
          archive, hargs, hpc, hpos, obj, counter, failed_counter,
          fs, fs0, sargs, spc, si, paths, ds2>>

filterVars == <<mols, molsId, pc, op, i, keep, pre, prevOp, log, ncalls>>
hdf5Vars   == <<archive, hargs, hpc, hpos, obj, counter, failed_counter>>
npzVars    == <<fs, fs0, sargs, spc, si, paths, ds2>>

-----------------------------------------------------------------------------
(* Bounds *)

MaxMols  == 3     \* molecules in the dataset of the filter specification
MaxCalls == 2     \* batch operations called in one run
MaxGroups == 3    \* groups in the hdf5 file
MaxNMax == 2      \* largest n_max given to from_hdf5
MaxSaved == 2     \* molecules in the dataset given to save_npz
MaxStale == 3     \* files an earlier save has left under the path
MaxOrdered == 11  \* molecules in the dataset of the ordered round trip

(* Python's None, for the optional numeric arguments max_force and n_max *)
None == 0 - 1

SigmaDen == 2

-----------------------------------------------------------------------------
(* Arithmetic helpers *)

Abs(x) == IF x < 0 THEN 0 - x ELSE x

RECURSIVE SumSeq(_)
SumSeq(s) == IF s = <<>> THEN 0 ELSE Head(s) + SumSeq(Tail(s))

MapSeq(s, F(_)) == [k \in 1..Len(s) |-> F(s[k])]

Range(s) == {s[k] : k \in 1..Len(s)}

MinOf(S) == CHOOSE x \in S : \A y \in S : x <= y

Sq(x) == x * x

-----------------------------------------------------------------------------
(* The molecule record *)

Suffixes == {"_amber99sbildn", "_gaff"}

NoLabels == [s \in Suffixes |-> <<>>]

Conf(e, f, ce, cf) == [e |-> e, f |-> f, ce |-> ce, cf |-> cf, lab |-> NoLabels]

Energies(m) == MapSeq(m.confs, LAMBDA c : c.e)

(* xyz.shape of a molecule: (conformations, atoms, 3) *)
XyzShape(m) == <<Len(m.confs), m.natoms, 3>>

Ids(ms) == MapSeq(ms, LAMBDA m : m.id)

(* The force field as a scorer: energy and force of one conformation *)
Score(ff, charges, c) ==
    LET d == (IF ff = "gaff" THEN 3 ELSE 0) + (IF charges = "am1bcc" THEN 1 ELSE 0)
    IN  <<c.ce + d, c.cf - d>>

(* PDBMolecule.filter_confs: the pruned molecule *)
MolFilterConfs(m, max_energy, max_force) ==
    LET min_energy == MinOf(Range(Energies(m)))
        ok(c) == /\ c.e - min_energy <= max_energy
                 /\ (max_force = None \/ Abs(c.f) <= max_force)
    IN  [m EXCEPT !.confs = SelectSeq(@, ok)]

(* PDBMolecule.filter_confs: its return value, on the pruned molecule *)
MoreThan2Left(m) == Len(m.confs) >= 2

(* PDBMolecule.conf_check: rms(err) <= sigma * rms(ref - mean(ref)),
   compared as squares and cleared of denominators *)
RmsCheck(comp, ref, sigma) ==
    LET n   == Len(ref)
        S   == SumSeq(ref)
        err == SumSeq([k \in 1..n |-> Sq(comp[k] - ref[k])])
        dev == SumSeq([k \in 1..n |-> Sq(n * ref[k] - S)])
    IN  n > 0 /\ Sq(n) * Sq(SigmaDen) * err <= Sq(sigma) * dev

ConfCheck(m, ff, sigmas) ==
    /\ RmsCheck(MapSeq(m.confs, LAMBDA c : Score(ff, "none", c)[1]),
                MapSeq(m.confs, LAMBDA c : c.e), sigmas[1])
    /\ RmsCheck(MapSeq(m.confs, LAMBDA c : Score(ff, "none", c)[2]),
                MapSeq(m.confs, LAMBDA c : c.f), sigmas[2])

(* PDBMolecule.parametrize: the label is stored under suffix, per conformation *)
MolParametrize(m, ff, suffix, charges) ==
    LET labelled(c) == [c EXCEPT !.lab[suffix] = Score(ff, charges, c)]
    IN  [m EXCEPT !.confs = MapSeq(@, labelled)]

(* Whether the per-molecule step of operation name raises on m *)
MolRaises(m, name) == name \in m.raises

-----------------------------------------------------------------------------
(* Inputs of the filter specification *)

Templates == {
    [natoms |-> 3, raises |-> {},
     confs |-> <<Conf(0, 5, 1, 4), Conf(10, 0 - 8, 9, 0 - 8), Conf(100, 30, 98, 31)>>],
    [natoms |-> 2, raises |-> {},
     confs |-> <<Conf(0, 3, 0, 3), Conf(200, 70, 200, 70)>>],
    [natoms |-> 3, raises |-> {},
     confs |-> <<Conf(0, 2, 40, 2), Conf(20, 0 - 90, 0, 0 - 90), Conf(40, 4, 20, 4)>>],
    [natoms |-> 2, raises |-> {"filter_confs", "filter_validity", "parametrize"},
     confs |-> <<Conf(0, 1, 0, 1), Conf(30, 2, 30, 2)>>] }

WithId(t, k) == [id |-> k, natoms |-> t.natoms, raises |-> t.raises, confs |-> t.confs]

Datasets(n) ==
    UNION {{[k \in 1..len |-> WithId(ts[k], k)] : ts \in [1..len -> Templates]} : len \in 0..n}

NoOp == [name |-> "none", max_energy |-> 0, max_force |-> None,
         ff |-> "none", sigmas |-> <<0, 0>>, suffix |-> "none", charges |-> "none"]

FilterConfsOps ==
    {[NoOp EXCEPT !.name = "filter_confs", !.max_energy = a[1], !.max_force = a[2]] :
        a \in {<<60, None>>, <<60, 50>>, <<5, None>>}}

FilterValidityOps ==
    {[NoOp EXCEPT !.name = "filter_validity", !.ff = "amber99sbildn", !.sigmas = s] :
        s \in {<<2, 2>>, <<0, 0>>, <<1, 4>>, <<4, 1>>}}

ParametrizeOps ==
    {[NoOp EXCEPT !.name = "parametrize", !.ff = a[1], !.suffix = a[2], !.charges = a[3]] :
        a \in {<<"amber99sbildn", "_amber99sbildn", "none">>,
               <<"amber99sbildn", "_amber99sbildn", "am1bcc">>,
               <<"gaff", "_gaff", "none">>}}

-----------------------------------------------------------------------------
(* The batch operations of the container *)

(* The comprehension without its condition: nothing is removed *)
ListCompNoCondition(ms, kp) == ms

(* The comprehension with keep read one position late *)
ListCompShifted(ms, kp) ==
    LET idx == SelectSeq([k \in 1..Len(ms) |-> k], LAMBDA k : kp[IF k = 1 THEN 1 ELSE k - 1])
    IN  [n \in 1..Len(idx) |-> ms[idx[n]]]

(* [mol for i, mol in enumerate(self.mols) if keep[i]] *)
ListComp(ms, kp) ==
    LET idx == SelectSeq([k \in 1..Len(ms) |-> k], LAMBDA k : kp[k])
    IN  [n \in 1..Len(idx) |-> ms[idx[n]]]

(* A call of one of the three batch operations: the statements before the loop *)
Call(o) ==
    /\ pc \in {"idle", "done", "raised"}
    /\ ncalls < MaxCalls
    /\ op' = o
    /\ prevOp' = IF pc = "done" THEN op ELSE NoOp
    /\ pc' = "loop"
    /\ i' = 1
    /\ keep' = <<>>
    /\ log' = <<>>
    /\ pre' = mols
    /\ ncalls' = ncalls + 1
    /\ UNCHANGED <<mols, molsId>>

CallFilterConfs == \E o \in FilterConfsOps : Call(o)

CallFilterValidity == \E o \in FilterValidityOps : Call(o)

CallParametrize == \E o \in ParametrizeOps : Call(o)

(* The per-molecule step raises: the exception leaves the operation *)
StepRaises ==
    /\ pc = "loop"
    /\ i <= Len(mols)
    /\ MolRaises(mols[i], op.name)
    /\ pc' = "raised"
    /\ log' = Append(log, mols[i].id)
    /\ UNCHANGED <<mols, molsId, op, i, keep, pre, prevOp, ncalls>>

(* One iteration of the loop of filter_confs *)
FilterConfsStep ==
    /\ pc = "loop"
    /\ op.name = "filter_confs"
    /\ i <= Len(mols)
    /\ ~MolRaises(mols[i], op.name)
    /\ LET m == MolFilterConfs(mols[i], op.max_energy, op.max_force)
       IN  /\ mols' = [mols EXCEPT ![i] = m]
           /\ keep' = Append(keep, MoreThan2Left(m))
    /\ log' = Append(log, mols[i].id)
    /\ i' = i + 1
    /\ UNCHANGED <<molsId, pc, op, pre, prevOp, ncalls>>

(* filter_validity removing an invalid molecule inside the loop *)
FilterValidityStepEager ==
    /\ pc = "loop"
    /\ op.name = "filter_validity"
    /\ i <= Len(mols)
    /\ ~MolRaises(mols[i], op.name)
    /\ LET valid == ConfCheck(mols[i], op.ff, op.sigmas)
       IN  /\ keep' = Append(keep, valid)
           /\ mols' = IF valid THEN mols
                      ELSE SubSeq(mols, 1, i - 1) \o SubSeq(mols, i + 1, Len(mols))
    /\ log' = Append(log, mols[i].id)
    /\ i' = i + 1
    /\ UNCHANGED <<molsId, pc, op, pre, prevOp, ncalls>>

(* One iteration of the loop of filter_validity *)
FilterValidityStep ==
    /\ pc = "loop"
    /\ op.name = "filter_validity"
    /\ i <= Len(mols)
    /\ ~MolRaises(mols[i], op.name)
    /\ keep' = Append(keep, ConfCheck(mols[i], op.ff, op.sigmas))
    /\ log' = Append(log, mols[i].id)
    /\ i' = i + 1
    /\ UNCHANGED <<mols, molsId, pc, op, pre, prevOp, ncalls>>

(* self.mols[:] = [...] after the loop of either filter *)
Compact ==
    /\ pc = "loop"
    /\ op.name \in {"filter_confs", "filter_validity"}
    /\ i > Len(mols)
    /\ mols' = ListComp(mols, keep)
    /\ pc' = "done"
    /\ UNCHANGED <<molsId, op, i, keep, pre, prevOp, log, ncalls>>

(* parametrize adding the new label values to the ones already stored *)
ParametrizeStepAccumulate ==
    /\ pc = "loop"
    /\ op.name = "parametrize"
    /\ i <= Len(mols)
    /\ ~MolRaises(mols[i], op.name)
    /\ LET added(c) == [c EXCEPT !.lab[op.suffix] = @ \o Score(op.ff, op.charges, c)]
       IN  mols' = [mols EXCEPT ![i].confs = MapSeq(@, added)]
    /\ log' = Append(log, mols[i].id)
    /\ i' = i + 1
    /\ UNCHANGED <<molsId, pc, op, keep, pre, prevOp, ncalls>>

(* One iteration of the loop of parametrize *)
ParametrizeStep ==
    /\ pc = "loop"
    /\ op.name = "parametrize"
    /\ i <= Len(mols)
    /\ ~MolRaises(mols[i], op.name)
    /\ mols' = [mols EXCEPT ![i] = MolParametrize(@, op.ff, op.suffix, op.charges)]
    /\ log' = Append(log, mols[i].id)
    /\ i' = i + 1
    /\ UNCHANGED <<molsId, pc, op, keep, pre, prevOp, ncalls>>

(* parametrize returns after its loop *)
ParametrizeReturn ==
    /\ pc = "loop"
    /\ op.name = "parametrize"
    /\ i > Len(mols)
    /\ pc' = "done"
    /\ UNCHANGED <<mols, molsId, op, i, keep, pre, prevOp, log, ncalls>>

-----------------------------------------------------------------------------
(* Values of the variables a specification does not use *)

FilterIdle ==
    /\ molsId = 1 /\ pc = "idle" /\ op = NoOp /\ i = 1 /\ keep = <<>>
    /\ pre = <<>> /\ prevOp = NoOp /\ log = <<>> /\ ncalls = 0

Hdf5Idle ==
    /\ archive = <<>> /\ hargs = [n_max |-> None, skip_errs |-> TRUE, units |-> "canonical"]
    /\ hpc = "idle" /\ hpos = 0 /\ obj = <<>> /\ counter = 0 /\ failed_counter = 0

NpzIdle ==
    /\ fs = [kind |-> "absent", files |-> <<>>] /\ fs0 = fs
    /\ sargs = [overwrite |-> FALSE, keep_order |-> FALSE]
    /\ spc = "idle" /\ si = 0 /\ paths = <<>> /\ ds2 = <<>>

-----------------------------------------------------------------------------
(* from_hdf5 *)

Keys == {"atomic_numbers", "dft_total_energy", "conformations", "dft_total_gradient"}

(* Canonical units are kcal/mol and angstrom; converted values are held in
   thousandths of them.  Thousandths of the canonical unit per source unit,
   for the two unit conventions: the canonical one (the defaults of from_hdf5)
   and the one of from_spice (bohr, hartree per particle, and their quotient) *)
Milli(units, quantity) ==
    IF units = "canonical" THEN 1000
    ELSE CASE quantity = "distance" -> 529
           [] quantity = "energy"   -> 627509
           [] quantity = "force"    -> 1185821

(* Quantity(np.array(x), unit).value_in_unit(CANONICAL) *)
ValueInUnit(x, units, quantity) == MapSeq(x, LAMBDA v : v * Milli(units, quantity))

(* np.array(energies).mean(axis=-1), for energies whose mean is a whole number *)
Mean(x) == SumSeq(x) \div Len(x)

(* The groups of the file.  xyz and gradient hold one number per conformation *)
GroupTemplates == {
    [keys |-> Keys, elements |-> 3,
     energy |-> <<4, 6>>, xyz |-> <<1, 2>>, gradient |-> <<7, 0 - 3>>],
    [keys |-> Keys, elements |-> 2,
     energy |-> <<10, 20, 30>>, xyz |-> <<5, 6, 7>>, gradient |-> <<1, 2, 0 - 1>>],
    [keys |-> Keys \ {"dft_total_gradient"}, elements |-> 3,
     energy |-> <<4, 6>>, xyz |-> <<1, 2>>, gradient |-> <<>>],
    [keys |-> Keys, elements |-> 2,
     energy |-> <<10, 20, 30>>, xyz |-> <<5, 6>>, gradient |-> <<1, 2>>] }

Archives(n) ==
    UNION {{[k \in 1..len |->
               [name |-> k, keys |-> gs[k].keys, elements |-> gs[k].elements,
                energy |-> gs[k].energy, xyz |-> gs[k].xyz, gradient |-> gs[k].gradient]] :
            gs \in [1..len -> GroupTemplates]} : len \in 0..n}

(* f[name][key] raises KeyError for a key the group does not hold *)
KeyError(g) == ~(Keys \subseteq g.keys)

(* PDBMolecule.from_xyz raises when the arrays disagree on the conformations *)
FromXyzRaises(g) == Len(g.energy) # Len(g.xyz) \/ Len(g.gradient) # Len(g.xyz)

(* The body of the try block raises *)
GroupRaises(g) == KeyError(g) \/ FromXyzRaises(g)

(* The molecule the try block appends: converted arrays, energies relative to
   their mean; the force is the negative gradient; the scorer's values are a
   matter of the geometry *)
FromGroup(g, units) ==
    LET xyz      == ValueInUnit(g.xyz, units, "distance")
        grads    == ValueInUnit(g.gradient, units, "force")
        energies == ValueInUnit(MapSeq(g.energy, LAMBDA v : v - Mean(g.energy)),
                                units, "energy")
    IN  [id |-> g.name, natoms |-> g.elements, raises |-> {},
         confs |-> [k \in 1..Len(xyz) |-> Conf(energies[k], 0 - grads[k], xyz[k], xyz[k])]]

(* if not n_max is None: if len(obj) > n_max, with >= in place of > *)
CapReachedAtNMax == hargs.n_max # None /\ Len(obj) >= hargs.n_max

(* if not n_max is None: if len(obj) > n_max *)
CapReached == hargs.n_max # None /\ Len(obj) > hargs.n_max

(* from_hdf5 is called: the statements before the loop *)
Hdf5Call(a) ==
    /\ hpc = "idle"
    /\ hargs' = a
    /\ hpc' = "loop"
    /\ hpos' = 0
    /\ obj' = <<>>
    /\ counter' = 0
    /\ failed_counter' = 0
    /\ UNCHANGED archive

CallFromHdf5 ==
    \E n \in {None} \cup 0..MaxNMax, s \in BOOLEAN :
        Hdf5Call([n_max |-> n, skip_errs |-> s, units |-> "canonical"])

CallFromSpice == Hdf5Call([n_max |-> None, skip_errs |-> TRUE, units |-> "spice"])

(* The loop breaks at the cap *)
Hdf5Break ==
    /\ hpc = "loop"
    /\ hpos < Len(archive)
    /\ CapReached
    /\ hpc' = "returned"
    /\ UNCHANGED <<archive, hargs, hpos, obj, counter, failed_counter>>

(* An iteration that stores the group *)
Hdf5Store ==
    /\ hpc = "loop"
    /\ hpos < Len(archive)
    /\ ~CapReached
    /\ ~GroupRaises(archive[hpos + 1])
    /\ obj' = Append(obj, FromGroup(archive[hpos + 1], hargs.units))
    /\ counter' = counter + 1
    /\ hpos' = hpos + 1
    /\ UNCHANGED <<archive, hargs, hpc, failed_counter>>

(* An iteration whose try block raises, the except clause not counting it *)
Hdf5SkipUncounted ==
    /\ hpc = "loop"
    /\ hpos < Len(archive)
    /\ ~CapReached
    /\ GroupRaises(archive[hpos + 1])
    /\ hargs.skip_errs
    /\ hpos' = hpos + 1
    /\ UNCHANGED <<archive, hargs, hpc, obj, counter, failed_counter>>

(* An iteration whose try block raises, with skip_errs *)
Hdf5Skip ==
    /\ hpc = "loop"
    /\ hpos < Len(archive)
    /\ ~CapReached
    /\ GroupRaises(archive[hpos + 1])
    /\ hargs.skip_errs
    /\ failed_counter' = failed_counter + 1
    /\ hpos' = hpos + 1
    /\ UNCHANGED <<archive, hargs, hpc, obj, counter>>

(* An iteration whose try block raises, without skip_errs: raise *)
Hdf5Raise ==
    /\ hpc = "loop"
    /\ hpos < Len(archive)
    /\ ~CapReached
    /\ GroupRaises(archive[hpos + 1])
    /\ ~hargs.skip_errs
    /\ failed_counter' = failed_counter + 1
    /\ hpos' = hpos + 1
    /\ hpc' = "raised"
    /\ UNCHANGED <<archive, hargs, obj, counter>>

(* The groups are exhausted: return obj *)
Hdf5Return ==
    /\ hpc = "loop"
    /\ hpos = Len(archive)
    /\ hpc' = "returned"
    /\ UNCHANGED <<archive, hargs, hpos, obj, counter, failed_counter>>

InitHdf5 ==
    /\ archive \in Archives(MaxGroups)
    /\ hargs = [n_max |-> None, skip_errs |-> TRUE, units |-> "canonical"]
    /\ hpc = "idle" /\ hpos = 0 /\ obj = <<>> /\ counter = 0 /\ failed_counter = 0
    /\ mols = <<>>
    /\ FilterIdle
    /\ NpzIdle

NextHdf5 ==
    \/ (CallFromHdf5 /\ UNCHANGED <<filterVars, npzVars>>)
    \/ (CallFromSpice /\ UNCHANGED <<filterVars, npzVars>>)
    \/ (Hdf5Break /\ UNCHANGED <<filterVars, npzVars>>)
    \/ (Hdf5Store /\ UNCHANGED <<filterVars, npzVars>>)
    \/ (Hdf5Skip /\ UNCHANGED <<filterVars, npzVars>>)
    \/ (Hdf5Raise /\ UNCHANGED <<filterVars, npzVars>>)
    \/ (Hdf5Return /\ UNCHANGED <<filterVars, npzVars>>)

SpecHdf5 == InitHdf5 /\ [][NextHdf5]_vars

-----------------------------------------------------------------------------
(* save_npz and load_npz *)

(* str(id): the decimal digits as character codes *)
RECURSIVE Str(_)
Str(n) == IF n < 10 THEN <<48 + n>> ELSE Str(n \div 10) \o <<48 + (n % 10)>>

DotNpz == <<46, 110, 112, 122>>

(* str(id) + ".npz" *)
FileName(id) == Str(id) \o DotNpz

(* The pattern '*.npz' of rglob *)
MatchesNpz(name) ==
    /\ Len(name) >= Len(DotNpz)
    /\ SubSeq(name, Len(name) - Len(DotNpz) + 1, Len(name)) = DotNpz

(* a < b for two file names under one directory: the order of str *)
RECURSIVE LexLess(_, _)
LexLess(a, b) ==
    IF b = <<>> THEN FALSE
    ELSE IF a = <<>> THEN TRUE
    ELSE IF Head(a) # Head(b) THEN Head(a) < Head(b)
    ELSE LexLess(Tail(a), Tail(b))

(* sorted(...) with reverse=True *)
RECURSIVE SortedDescending(_)
SortedDescending(S) ==
    IF S = {} THEN <<>>
    ELSE LET last == CHOOSE x \in S : \A y \in S \ {x} : LexLess(y, x)
         IN  <<last>> \o SortedDescending(S \ {last})

(* sorted([p for p in Path(path).rglob('*.npz')]) *)
RECURSIVE Sorted(_)
Sorted(S) ==
    IF S = {} THEN <<>>
    ELSE LET first == CHOOSE x \in S : \A y \in S \ {x} : LexLess(x, y)
         IN  <<first>> \o Sorted(S \ {first})

(* The orders in which rglob may yield the names S *)
Orders(S) ==
    {p \in [1..Cardinality(S) -> S] : \A j, k \in 1..Cardinality(S) : j # k => p[j] # p[k]}

(* PDBMolecule.compress and PDBMolecule.load: the file holds the arrays *)
Compress(m) == [npz |-> m]

MolLoad(file) == file.npz

(* The path with one more file *)
WriteFile(files, name, content) ==
    [x \in DOMAIN files \cup {name} |-> IF x = name THEN content ELSE files[x]]

NoFiles == <<>>

(* The molecules a save can hold *)
SavedTemplates == {t \in Templates : t.raises = {}}

SavedDatasets(n) ==
    UNION {{[k \in 1..len |-> WithId(ts[k], k)] : ts \in [1..len -> SavedTemplates]} :
           len \in 0..n}

(* What an earlier save of n molecules has left under the path *)
StaleMol(k) ==
    WithId(CHOOSE t \in SavedTemplates : Len(t.confs) = 3 /\ t.confs[1].ce = 1, 100 + k)

StaleFiles(n) ==
    [x \in {FileName(k) : k \in 0..(n - 1)} |->
        Compress(StaleMol(CHOOSE k \in 0..(n - 1) : FileName(k) = x))]

(* The states of the path before save_npz: nothing, a regular file, a
   directory after an earlier save of n molecules (empty for n = 0), or a
   directory with a file of another kind *)
InitialPaths ==
    {[kind |-> "absent", files |-> NoFiles], [kind |-> "file", files |-> NoFiles]}
    \cup {[kind |-> "dir", files |-> StaleFiles(n)] : n \in 0..MaxStale}
    \cup {[kind |-> "dir", files |-> WriteFile(NoFiles, <<97>>, Compress(StaleMol(0)))]}

(* save_npz finds the path and overwrite is not set: FileExistsError *)
SaveRaisesExists ==
    /\ spc = "idle"
    /\ \E o \in BOOLEAN : sargs' = [sargs EXCEPT !.overwrite = o]
    /\ fs.kind # "absent" /\ ~sargs'.overwrite
    /\ spc' = "raised_exists"
    /\ fs0' = fs
    /\ UNCHANGED <<mols, fs, si, paths, ds2>>

(* os.makedirs(path, exist_ok=True) on a regular file: FileExistsError *)
SaveMakedirsRaises ==
    /\ spc = "idle"
    /\ \E o \in BOOLEAN : sargs' = [sargs EXCEPT !.overwrite = o]
    /\ ~(fs.kind # "absent" /\ ~sargs'.overwrite)
    /\ fs.kind = "file"
    /\ spc' = "raised_makedirs"
    /\ fs0' = fs
    /\ UNCHANGED <<mols, fs, si, paths, ds2>>

(* os.makedirs(path, exist_ok=True) makes the directory or finds it *)
SaveMakedirs ==
    /\ spc = "idle"
    /\ \E o \in BOOLEAN : sargs' = [sargs EXCEPT !.overwrite = o]
    /\ ~(fs.kind # "absent" /\ ~sargs'.overwrite)
    /\ fs.kind # "file"
    /\ fs' = [fs EXCEPT !.kind = "dir"]
    /\ spc' = "saving"
    /\ si' = 0
    /\ fs0' = fs
    /\ UNCHANGED <<mols, paths, ds2>>

(* One iteration of the loop of save_npz *)
SaveStep ==
    /\ spc = "saving"
    /\ si < Len(mols)
    /\ fs' = [fs EXCEPT !.files = WriteFile(@, FileName(si), Compress(mols[si + 1]))]
    /\ si' = si + 1
    /\ UNCHANGED <<mols, fs0, sargs, spc, paths, ds2>>

(* save_npz returns *)
SaveReturn ==
    /\ spc = "saving"
    /\ si = Len(mols)
    /\ spc' = "saved"
    /\ UNCHANGED <<mols, fs, fs0, sargs, si, paths, ds2>>

NpzNames == {x \in DOMAIN fs.files : MatchesNpz(x)}

(* load_npz(path, keep_order=True) up to its loop *)
LoadOrdered ==
    /\ spc = "saved"
    /\ sargs' = [sargs EXCEPT !.keep_order = TRUE]
    /\ paths' = Sorted(NpzNames)
    /\ ds2' = <<>>
    /\ spc' = "loading"
    /\ UNCHANGED <<mols, fs, fs0, si>>

(* load_npz(path) up to its loop: rglob yields the files in some order *)
LoadUnordered ==
    /\ spc = "saved"
    /\ sargs' = [sargs EXCEPT !.keep_order = FALSE]
    /\ paths' \in Orders(NpzNames)
    /\ ds2' = <<>>
    /\ spc' = "loading"
    /\ UNCHANGED <<mols, fs, fs0, si>>

(* One iteration of the loop of load_npz *)
LoadStep ==
    /\ spc = "loading"
    /\ paths # <<>>
    /\ ds2' = Append(ds2, MolLoad(fs.files[Head(paths)]))
    /\ paths' = Tail(paths)
    /\ UNCHANGED <<mols, fs, fs0, sargs, spc, si>>

(* load_npz returns *)
LoadReturn ==
    /\ spc = "loading"
    /\ paths = <<>>
    /\ spc' = "loaded"
    /\ UNCHANGED <<mols, fs, fs0, sargs, si, paths, ds2>>

NpzBefore ==
    /\ fs0 = fs
    /\ sargs = [overwrite |-> FALSE, keep_order |-> FALSE]
    /\ spc = "idle" /\ si = 0 /\ paths = <<>> /\ ds2 = <<>>

InitNpz ==
    /\ mols \in SavedDatasets(MaxSaved)
    /\ fs \in InitialPaths
    /\ NpzBefore
    /\ FilterIdle
    /\ Hdf5Idle

otherVars == <<molsId, pc, op, i, keep, pre, prevOp, log, ncalls, hdf5Vars>>

NextNpz ==
    \/ (SaveRaisesExists /\ UNCHANGED otherVars)
    \/ (SaveMakedirsRaises /\ UNCHANGED otherVars)
    \/ (SaveMakedirs /\ UNCHANGED otherVars)
    \/ (SaveStep /\ UNCHANGED otherVars)
    \/ (SaveReturn /\ UNCHANGED otherVars)
    \/ (LoadOrdered /\ UNCHANGED otherVars)
    \/ (LoadUnordered /\ UNCHANGED otherVars)
    \/ (LoadStep /\ UNCHANGED otherVars)
    \/ (LoadReturn /\ UNCHANGED otherVars)

SpecNpz == InitNpz /\ [][NextNpz]_vars

(* The ordered round trip: datasets of up to MaxOrdered molecules, saved to a
   path that holds no files and loaded with keep_order=True *)
OrderedDataset(n) == [k \in 1..n |-> WithId(CHOOSE t \in SavedTemplates : Len(t.confs) = 2, k)]

InitOrdered ==
    /\ mols \in {OrderedDataset(n) : n \in 0..MaxOrdered}
    /\ fs \in {p \in InitialPaths : p.files = NoFiles}
    /\ NpzBefore
    /\ FilterIdle
    /\ Hdf5Idle

NextOrdered ==
    \/ (SaveRaisesExists /\ UNCHANGED otherVars)
    \/ (SaveMakedirsRaises /\ UNCHANGED otherVars)
    \/ (SaveMakedirs /\ UNCHANGED otherVars)
    \/ (SaveStep /\ UNCHANGED otherVars)
    \/ (SaveReturn /\ UNCHANGED otherVars)
    \/ (LoadOrdered /\ UNCHANGED otherVars)
    \/ (LoadStep /\ UNCHANGED otherVars)
    \/ (LoadReturn /\ UNCHANGED otherVars)

SpecOrdered == InitOrdered /\ [][NextOrdered]_vars

-----------------------------------------------------------------------------
(* The filter specification: a dataset and a run of batch operations on it *)

Init ==
    /\ mols \in Datasets(MaxMols)
    /\ FilterIdle
    /\ Hdf5Idle
    /\ NpzIdle

Next ==
    \/ (CallFilterConfs /\ UNCHANGED <<hdf5Vars, npzVars>>)
    \/ (CallFilterValidity /\ UNCHANGED <<hdf5Vars, npzVars>>)
    \/ (CallParametrize /\ UNCHANGED <<hdf5Vars, npzVars>>)
    \/ (StepRaises /\ UNCHANGED <<hdf5Vars, npzVars>>)
    \/ (FilterConfsStep /\ UNCHANGED <<hdf5Vars, npzVars>>)
    \/ (FilterValidityStep /\ UNCHANGED <<hdf5Vars, npzVars>>)
    \/ (Compact /\ UNCHANGED <<hdf5Vars, npzVars>>)
    \/ (ParametrizeStep /\ UNCHANGED <<hdf5Vars, npzVars>>)
    \/ (ParametrizeReturn /\ UNCHANGED <<hdf5Vars, npzVars>>)

Spec == Init /\ [][Next]_vars

-----------------------------------------------------------------------------
(* Properties of the filter specification *)

Filters == {"filter_confs", "filter_validity"}

(* The subsequence of ms selected by the booleans kp *)
RECURSIVE SelectedBy(_, _)
SelectedBy(ms, kp) ==
    IF ms = <<>> THEN <<>>
    ELSE (IF Head(kp) THEN <<Head(ms)>> ELSE <<>>) \o SelectedBy(Tail(ms), Tail(kp))

(* The molecule of ms with the given id *)
MolOf(ms, id) == ms[CHOOSE k \in 1..Len(ms) : ms[k].id = id]

(* The conformations of m0 that are within the thresholds of operation o *)
WithinWindow(m0, o) ==
    LET lowest == MinOf(Range(Energies(m0)))
    IN  SelectSeq(m0.confs, LAMBDA c : /\ c.e - lowest <= o.max_energy
                                       /\ (o.max_force = None \/ Abs(c.f) <= o.max_force))

(* C1: when filter_confs has completed, the container holds, in their order,
   exactly the molecules that keep at least 2 conformations within the
   thresholds; each of them holds exactly its conformations within the
   thresholds (energy above the molecule's own minimum at most max_energy,
   force magnitude at most max_force when given), so at least 2; energies
   [0,10,100] under max_energy 60 survive as [0,10], energies [0,200] are
   dropped. *)
C1_FilterConfs ==
    (pc = "done" /\ op.name = "filter_confs") =>
        /\ Ids(mols) = Ids(SelectSeq(pre, LAMBDA m0 : Len(WithinWindow(m0, op)) >= 2))
        /\ \A k \in 1..Len(mols) :
              LET m  == mols[k]
                  m0 == MolOf(pre, m.id)
              IN  /\ Len(m.confs) >= 2
                  /\ m.confs = WithinWindow(m0, op)
                  /\ \A c \in Range(m.confs) :
                        /\ c.e - MinOf(Range(Energies(m0))) <= op.max_energy
                        /\ c.e - MinOf(Range(Energies(m))) <= op.max_energy
                        /\ (op.max_force # None => Abs(c.f) <= op.max_force)
        /\ \A m0 \in Range(pre) :
              (op.max_energy = 60 /\ op.max_force = None) =>
                  /\ Energies(m0) = <<0, 10, 100>> =>
                        /\ m0.id \in Range(Ids(mols))
                        /\ Energies(MolOf(mols, m0.id)) = <<0, 10>>
                  /\ Energies(m0) = <<0, 200>> => m0.id \notin Range(Ids(mols))

(* C1 witness: filter_confs completed, dropped one molecule and kept another
   one from which it pruned a conformation *)
C1_Witness ==
    /\ pc = "done" /\ op.name = "filter_confs"
    /\ Len(mols) >= 1 /\ Len(mols) < Len(pre)
    /\ \E k \in 1..Len(mols) : Len(mols[k].confs) < Len(MolOf(pre, mols[k].id).confs)

SigmaRange == 0..4

(* C2: when filter_validity has completed under sigmas s, the container holds
   exactly the molecules for which both the energy and the force criterion
   pass under s, and each of them passes under every s2 that is at least s in
   both components: the keep-set does not shrink when a sigma grows. *)
C2_Monotone ==
    (pc = "done" /\ op.name = "filter_validity") =>
        /\ Ids(mols) = Ids(SelectSeq(pre, LAMBDA m0 : ConfCheck(m0, op.ff, op.sigmas)))
        /\ \A s2 \in SigmaRange \X SigmaRange :
              (op.sigmas[1] <= s2[1] /\ op.sigmas[2] <= s2[2]) =>
                  \A m \in Range(mols) : ConfCheck(MolOf(pre, m.id), op.ff, s2)
        /\ \A m0 \in Range(pre) :
              ConfCheck(m0, op.ff, op.sigmas) <=>
                  /\ RmsCheck(MapSeq(m0.confs, LAMBDA c : Score(op.ff, "none", c)[1]),
                              Energies(m0), op.sigmas[1])
                  /\ RmsCheck(MapSeq(m0.confs, LAMBDA c : Score(op.ff, "none", c)[2]),
                              MapSeq(m0.confs, LAMBDA c : c.f), op.sigmas[2])

(* C2 witness: filter_validity completed having kept one molecule and removed
   another one that passes under larger sigmas *)
C2_Witness ==
    /\ pc = "done" /\ op.name = "filter_validity"
    /\ Len(mols) >= 1
    /\ \E m0 \in Range(pre) :
          /\ m0.id \notin Range(Ids(mols))
          /\ \E s2 \in SigmaRange \X SigmaRange :
                /\ op.sigmas[1] <= s2[1] /\ op.sigmas[2] <= s2[2]
                /\ ConfCheck(m0, op.ff, s2)

(* The decision of the running filter on the molecule at position k, once its
   iteration is over *)
Decision(k) ==
    IF op.name = "filter_validity"
    THEN ConfCheck(pre[k], op.ff, op.sigmas)
    ELSE Len(WithinWindow(pre[k], op)) >= 2

(* While a filter collects its decisions the list holds the same molecules at
   the same positions, and keep[k] is the decision on position k *)
C9_LoopState ==
    (pc = "loop" /\ op.name \in Filters) =>
        /\ Ids(mols) = Ids(pre)
        /\ Len(keep) = i - 1
        /\ \A k \in 1..Len(keep) : keep[k] = Decision(k)

(* The steps of a filter: no step before the last decision changes the
   membership, and the one step after it leaves the subsequence selected by
   keep in the same list object *)
C9_Steps ==
    (pc = "loop" /\ op.name \in Filters) =>
        /\ molsId' = molsId
        /\ pc' = "loop" => Ids(mols') = Ids(mols)
        /\ pc' = "done" =>
              /\ Len(keep) = Len(mols)
              /\ mols' = SelectedBy(mols, keep)
              /\ keep' = keep

(* C9: in filter_validity and filter_confs the membership list is not modified
   during the decision loop (its length and every molecule's position stay
   constant, keep[k] is the decision on position k); removal is one
   compaction step after the last decision, on the same list object, and it
   leaves the subsequence of the list selected by keep, in order. *)
C9_CompactAfterLoop == [](C9_LoopState) /\ [][C9_Steps]_vars

(* C9 witness: a filter completed over two molecules, dropped the first and
   kept the second *)
C9_Witness ==
    /\ pc = "done" /\ op.name \in Filters
    /\ Len(keep) >= 2 /\ ~keep[1] /\ keep[2]
    /\ Ids(mols) = SelectedBy(Ids(pre), keep)

(* C8: when parametrize has completed, the per-molecule parametrize was called
   once per molecule in container order, membership and order are unchanged,
   every conformation holds under the suffix exactly the scorer's values (one
   pair, overwritten), everything else in the molecule, the labels under other
   suffixes included, is as before; and if the operation completed right
   before was parametrize with the same force field, suffix and charges, the
   container is exactly as it was before the second call. *)
C8_Idempotent ==
    (pc = "done" /\ op.name = "parametrize") =>
        /\ log = Ids(pre)
        /\ Ids(mols) = Ids(pre)
        /\ \A k \in 1..Len(mols) :
              /\ Len(mols[k].confs) = Len(pre[k].confs)
              /\ \A n \in 1..Len(mols[k].confs) :
                    LET c  == mols[k].confs[n]
                        c0 == pre[k].confs[n]
                    IN  /\ c.lab[op.suffix] = Score(op.ff, op.charges, c0)
                        /\ c = [c0 EXCEPT !.lab[op.suffix] = c.lab[op.suffix]]
              /\ mols[k] = [pre[k] EXCEPT !.confs = mols[k].confs]
        /\ prevOp = op => mols = pre

(* C8 witness: parametrize completed twice in a row with the same arguments on
   a dataset that also holds a label under the other suffix *)
C8_Witness ==
    /\ pc = "done" /\ op.name = "parametrize" /\ prevOp = op
    /\ Len(mols) >= 1
    /\ \A c \in Range(mols[1].confs) : c.lab[op.suffix] # <<>>

(* C7: when the per-molecule step raised at position i, every molecule before
   i has had its keep/drop decision applied to the membership and keeps its
   pruning or labels, the molecule at i and those after it are untouched. *)
C7_PrefixState ==
    pc = "raised" =>
        LET before == SubSeq(pre, 1, i - 1)
            rest   == SubSeq(pre, i, Len(pre))
            kept   == IF op.name \in Filters
                      THEN SelectedBy(before, [k \in 1..(i - 1) |-> Decision(k)])
                      ELSE before
            done(m0) == CASE op.name = "filter_confs" ->
                                 MolFilterConfs(m0, op.max_energy, op.max_force)
                          [] op.name = "parametrize" ->
                                 MolParametrize(m0, op.ff, op.suffix, op.charges)
                          [] OTHER -> m0
        IN  mols = MapSeq(kept, done) \o rest

-----------------------------------------------------------------------------
(* Properties of from_hdf5 *)

Started == SubSeq(archive, 1, hpos)

WellFormed(gs) == SelectSeq(gs, LAMBDA g : ~GroupRaises(g))

Malformed(gs) == SelectSeq(gs, LAMBDA g : GroupRaises(g))

(* The state of from_hdf5 in terms of the groups whose iteration has started *)
C3_State ==
    hpc # "idle" =>
        /\ failed_counter = Len(Malformed(Started))
        /\ Ids(obj) = MapSeq(WellFormed(Started), LAMBDA g : g.name)
        /\ obj = MapSeq(WellFormed(Started), LAMBDA g : FromGroup(g, hargs.units))
        /\ hargs.skip_errs =>
              /\ hpc # "raised"
              /\ (hpc = "returned" /\ hargs.n_max = None) =>
                    /\ hpos = Len(archive)
                    /\ Len(Malformed(archive)) = 1 =>
                          (Len(obj) = Len(archive) - 1 /\ failed_counter = 1)
        /\ ~hargs.skip_errs =>
              /\ hpc # "raised" => Malformed(Started) = <<>>
              /\ hpc = "raised" =>
                    /\ GroupRaises(archive[hpos])
                    /\ Malformed(SubSeq(archive, 1, hpos - 1)) = <<>>
                    /\ failed_counter = 1

(* C3: a group that raises is skipped and counted once when skip_errs is true,
   every well-formed group reached is appended in archive order, and without
   n_max every group is reached, so one malformed group leaves all the others
   and a failure counter of 1; when skip_errs is false the first group that
   raises ends from_hdf5 and no step follows. *)
C3_RecordIsolation == [](C3_State) /\ [][hpc # "raised"]_vars

(* C3 witness: from_hdf5 returned without n_max from a file of at least three
   groups with exactly one malformed group between well-formed ones *)
C3_Witness ==
    /\ hpc = "returned" /\ hargs.skip_errs /\ hargs.n_max = None
    /\ Len(archive) >= 3 /\ Len(Malformed(archive)) = 1
    /\ GroupRaises(archive[2])
    /\ failed_counter = 1 /\ Len(obj) = Len(archive) - 1

(* The state of from_hdf5 under a cap *)
C4_State ==
    (hpc # "idle" /\ hargs.n_max # None) =>
        /\ Len(obj) <= hargs.n_max + 1
        /\ Len(obj) = Len(WellFormed(Started))
        /\ (hpc = "returned" /\ Len(obj) < hargs.n_max + 1) =>
              Len(WellFormed(archive)) = Len(obj)

(* An iteration that reads a group starts with at most n_max records *)
C4_Step ==
    (hpos' # hpos /\ hargs.n_max # None) => Len(obj) <= hargs.n_max

(* C4: with n_max set no group is read in an iteration that starts with more
   than n_max records, the container never holds more than n_max + 1 records,
   a returned container holds fewer only if the file has no more well-formed
   groups than it holds, and skipped groups are not counted. *)
C4_SoftCap == [](C4_State) /\ [][C4_Step]_vars

(* C4 witness: from_hdf5 returned at the cap with n_max + 1 records, having
   skipped a group, with groups left unread *)
C4_Witness ==
    /\ hpc = "returned" /\ hargs.n_max # None
    /\ Len(obj) = hargs.n_max + 1
    /\ failed_counter >= 1
    /\ hpos < Len(archive)

-----------------------------------------------------------------------------
(* Properties of save_npz and load_npz *)

SaveRaised == spc \in {"raised_exists", "raised_makedirs"}

SaveDone == spc \in {"saved", "loading", "loaded"}

(* C5: save_npz on an existing path without overwrite raises with the path and
   the dataset unchanged; with overwrite=True or a path that does not exist it
   does not raise and, once it returned, the path holds '<index>.npz' with
   the molecule at index, for every index of the dataset. *)
C5_SaveNpz ==
    spc # "idle" =>
        /\ (fs0.kind # "absent" /\ ~sargs.overwrite) => (SaveRaised /\ fs = fs0)
        /\ (fs0.kind = "absent" \/ sargs.overwrite) =>
              /\ ~SaveRaised
              /\ SaveDone =>
                    \A k \in 0..(Len(mols) - 1) :
                        /\ FileName(k) \in DOMAIN fs.files
                        /\ fs.files[FileName(k)] = Compress(mols[k + 1])

Shapes(ms) == {XyzShape(m) : m \in Range(ms)}

(* The states of the target the round trip is stated for: not existing; an
   empty directory; or the files of an earlier, larger save, with overwrite *)
C6_Target ==
    \/ fs0.kind = "absent"
    \/ (fs0.kind = "dir" /\ fs0.files = NoFiles)
    \/ /\ fs0.kind = "dir" /\ sargs.overwrite
       /\ \E n \in 1..MaxStale : n > Len(mols) /\ fs0.files = StaleFiles(n)

(* C6: for such a target, save_npz followed by load_npz completes and returns
   a dataset of len(ds) molecules with the same set of xyz shapes. *)
C6_RoundTrip ==
    (spc # "idle" /\ C6_Target) =>
        /\ ~SaveRaised
        /\ spc = "loaded" => (Len(ds2) = Len(mols) /\ Shapes(ds2) = Shapes(mols))

(* C10 as stated: after a save into a path without files, load_npz with
   keep_order=True returns the molecules in their save order, for datasets of
   any size. *)
C10_SaveOrder ==
    (spc = "loaded" /\ sargs.keep_order /\ fs0.files = NoFiles) => ds2 = mols

(* C10, amended: after a save into a path without files, load_npz with
   keep_order=True returns every saved molecule once, in the order of the file
   names as strings ('10.npz' before '2.npz'); this is the save order exactly
   for datasets of at most 10 molecules. *)
C10_NameOrder ==
    (spc = "loaded" /\ sargs.keep_order /\ fs0.files = NoFiles) =>
        /\ Len(ds2) = Len(mols)
        /\ \A k \in 1..Len(ds2) : ds2[k] = mols[ds2[k].id]
        /\ \A j, k \in 1..Len(ds2) :
              j < k => LexLess(FileName(ds2[j].id - 1), FileName(ds2[k].id - 1))
        /\ ds2 = mols <=> Len(mols) <= 10

(* C10 witness: an ordered load of 10 molecules completed in save order *)
C10_Witness ==
    /\ spc = "loaded" /\ sargs.keep_order /\ fs0.files = NoFiles
    /\ Len(mols) = 10 /\ ds2 = mols

====
